---- MODULE Spec2Model ----
(***************************************************************************)
(* Yet-Another-BG3-Mod-Loader: the watch session started by run()          *)
(* (src/lib.rs), the bypass launcher autostart() (autostart.rs), and the   *)
(* single-instance guard both acquire first.                               *)
(*                                                                         *)
(* process_watcher.rs, single_instance.rs, tray.rs, injector.rs and        *)
(* popup.rs are not among the sources; the poll loop, the guard and the    *)
(* tray are modelled from the design document (sections 4.2, 4.5, 5).      *)
(***************************************************************************)
EXTENDS Integers, Sequences, FiniteSets, TLC

\* ------------------------------------------------------------------ bounds
\* Cap of the elapsed-time counter of a watch session (seconds).
MaxElapsed == 12
\* Number of target process starts the environment performs.
MaxPid == 2
\* Number of tool instances the user starts.
NumInstances == 3
\* Threads or tool instances that stage the payload, and their calls in all.
NumStagers == 2
MaxCalls == 3
\* Largest size handed to write_in, and the calls of write_in in all.
MaxSize == 2
MaxWrites == 3

\* ------------------------------------------------------- program constants
WatcherPollSecs == 2
InjectorPollSecs == 1
InjectorTimeoutSecs == 10

VARIABLES
    \* ---- watch session (lib.rs run) ----
    run_type,      \* RunType of this run: "Watcher" | "Injector"
    mpc,           \* position of the thread executing run()
    spec,          \* WatchSpec handed to ProcessWatcher::new (NoSpec before)
    wstate,        \* watcher state machine: Idle | Watching | Resolved | TimedOut | Stopped
    wpc,           \* position of the watcher's background thread
    timer,         \* seconds left until the poll loop's next wake-up
    elapsed,       \* seconds since the watch started (saturates at MaxElapsed)
    live,          \* pids of the live processes whose image is a target path
    next_pid,      \* pid the next target start gets
    cache,         \* pids the watcher has already reported and still sees
    pending,       \* matches of the current scan not yet reported
    inflight,      \* callback invocations that are executing
    events,        \* callback invocations delivered so far, in order
    stop,          \* the stop signal of the stop_token
    tray,          \* "none" | "running" | "quit"
    scan_failed,   \* whether the last poll cycle failed to snapshot the process list
    last_inject,   \* result of the latest inject_plugins call: "none" | "Ok" | "Err"
    \* ---- tool instances and the single-instance guard ----
    ipc,           \* per instance: idle | new | running | blocked | gone
    kind,          \* per instance: which tool it is
    holds,         \* instances that hold the SingleInstanceGuard
    did,           \* per instance: the work it has performed
    found_held,    \* instances whose SingleInstance::new found the guard held
    \* ---- one run of the bypass launcher (autostart.rs) ----
    argv,          \* env::args(): [this_exe_path, bg3_exe_path, ..args]
    guard_held,    \* whether another instance holds the guard when the run starts
    lpc,           \* position in autostart()
    bg3_path,      \* the path resolved from get_game_binary_paths
    args,          \* the arguments left to forward
    child,         \* pid of the spawned child (0: none)
    steps,         \* process-creation, detach and injection steps attempted, in order
    outcome,       \* how the run ended
    \* ---- payload staging (tmp_loader.rs write_loader) ----
    tmp_exists,    \* whether the system temp directory exists
    file,          \* the file loader-<hash>.dll: whether it exists, and its bytes
    spc,           \* per stager: position in write_loader
    soff,          \* per stager: frames of LOADER_BIN decoded into its out_file
    scall,         \* per stager: the call it is executing (0: none)
    creators,      \* the calls whose File::create succeeded
    overlap,       \* whether two calls have been in progress at the same time
    rets,          \* per call, in order of their start: what it returned
    \* ---- remote writes (loader/write.rs write_in) ----
    wi_pc,         \* position in write_in
    size,          \* the size argument of the call
    alloc_addr,    \* the address VirtualAllocEx returned (Null: none)
    next_addr,     \* the base address the next region of the target gets
    regions,       \* the regions allocated in the target process
    os_calls,      \* the OS calls the current write_in has issued, in order
    result,        \* what the latest write_in returned
    nwrites,       \* calls of write_in so far
    handle_open    \* whether the caller's OwnedHandle of the target is open

wvars == <<run_type, mpc, spec, wstate, wpc, timer, elapsed, live, next_pid,
           cache, pending, inflight, events, stop, tray, scan_failed, last_inject>>

gvars == <<ipc, kind, holds, did, found_held>>

lvars == <<argv, guard_held, lpc, bg3_path, args, child, steps, outcome>>

svars == <<tmp_exists, file, spc, soff, scall, creators, overlap, rets>>

xvars == <<wi_pc, size, alloc_addr, next_addr, regions, os_calls, result, nwrites,
           handle_open>>

vars == <<wvars, gvars, lvars, svars, xvars>>

\* ------------------------------------------------------------------ values
RunTypes == {"Watcher", "Injector"}

TimeoutNone == [kind |-> "None", secs |-> 0]
TimeoutDuration(s) == [kind |-> "Duration", secs |-> s]

NoSpec == [polling_rate |-> 0, timeout |-> TimeoutNone, oneshot |-> FALSE]

Pid(p) == [type |-> "Pid", pid |-> p]
CallTimeout == [type |-> "Timeout", pid |-> 0]

Min(a, b) == IF a < b THEN a ELSE b

\* The thread has left the poll loop for good.
Dead == {"exited", "panicked"}

\* -------------------------------------------------------------- lib.rs run
\* Mutant: the test on the run type inverted, so the injector tool gets the
\* watcher's parameters and the watcher the injector's.
RunParamsSwapped(rt) ==
    IF rt # "Watcher"
    THEN [polling_rate |-> WatcherPollSecs, timeout |-> TimeoutNone, oneshot |-> FALSE]
    ELSE [polling_rate |-> InjectorPollSecs,
          timeout |-> TimeoutDuration(InjectorTimeoutSecs), oneshot |-> TRUE]

\* Mutant: the injector tool's watch is not one-shot.
RunParamsNotOneshot(rt) ==
    IF rt = "Watcher"
    THEN [polling_rate |-> WatcherPollSecs, timeout |-> TimeoutNone, oneshot |-> FALSE]
    ELSE [polling_rate |-> InjectorPollSecs,
          timeout |-> TimeoutDuration(InjectorTimeoutSecs), oneshot |-> FALSE]

\* (polling_rate, timeout, oneshot) of a run type.
RunParams(rt) ==
    IF rt = "Watcher"
    THEN [polling_rate |-> WatcherPollSecs, timeout |-> TimeoutNone, oneshot |-> FALSE]
    ELSE [polling_rate |-> InjectorPollSecs,
          timeout |-> TimeoutDuration(InjectorTimeoutSecs), oneshot |-> TRUE]

\* ProcessWatcher::new(..).run(callback): the background thread starts in Watching.
StartWatch ==
    /\ mpc = "start"
    /\ spec' = RunParams(run_type)
    /\ wstate' = "Watching"
    /\ wpc' = "sleep"
    /\ timer' = 0
    /\ elapsed' = 0
    /\ mpc' = IF run_type = "Watcher" THEN "tray" ELSE "wait"
    /\ UNCHANGED <<run_type, live, next_pid, cache, pending, inflight, events,
                   stop, tray, scan_failed, last_inject>>
    /\ UNCHANGED <<gvars, lvars, svars, xvars>>

\* Mutant: the closure hands the injection to another thread and returns at once.
CallbackEnterAsync(call) ==
    /\ inflight' = inflight \cup {call}
    /\ wpc' = "returned"

\* The closure is entered on the watcher's thread, which stays in it until it returns.
CallbackEnter(call) ==
    /\ inflight' = inflight \cup {call}
    /\ wpc' = "callback"

\* CallType::Pid(pid): inject_plugins(..) returned Ok; the closure returns.
CallbackPidOk(call) ==
    /\ call \in inflight
    /\ call.type = "Pid"
    /\ inflight' = inflight \ {call}
    /\ wpc' = IF wpc = "callback" THEN "returned" ELSE wpc
    /\ last_inject' = "Ok"
    /\ UNCHANGED <<run_type, mpc, spec, wstate, timer, elapsed, live, next_pid,
                   cache, pending, events, stop, tray, scan_failed>>
    /\ UNCHANGED <<gvars, lvars, svars, xvars>>

\* CallType::Pid(pid): inject_plugins(..) returned Err; unwrap() panics on the
\* watcher's thread, which unwinds out of the poll loop.
CallbackPidErr(call) ==
    /\ call \in inflight
    /\ call.type = "Pid"
    /\ inflight' = inflight \ {call}
    /\ wpc' = "panicked"
    /\ last_inject' = "Err"
    /\ UNCHANGED <<run_type, mpc, spec, wstate, timer, elapsed, live, next_pid,
                   cache, pending, events, stop, tray, scan_failed>>
    /\ UNCHANGED <<gvars, lvars, svars, xvars>>

\* CallType::Timeout: fatal_popup never returns; the process ends.
CallbackTimeout ==
    /\ CallTimeout \in inflight
    /\ inflight' = {}
    /\ wpc' = "exited"
    /\ mpc' = "exited"
    /\ UNCHANGED <<run_type, spec, wstate, timer, elapsed, live, next_pid,
                   cache, pending, events, stop, tray, scan_failed, last_inject>>
    /\ UNCHANGED <<gvars, lvars, svars, xvars>>

\* AppTray::start(stop_token), for the watcher tool only.
AppTrayStart ==
    /\ mpc = "tray"
    /\ tray' = "running"
    /\ mpc' = "wait"
    /\ UNCHANGED <<run_type, spec, wstate, wpc, timer, elapsed, live, next_pid,
                   cache, pending, inflight, events, stop, scan_failed, last_inject>>
    /\ UNCHANGED <<gvars, lvars, svars, xvars>>

\* The tray's quit action raises the stop signal it was given.
TrayQuit ==
    /\ tray = "running"
    /\ tray' = "quit"
    /\ stop' = TRUE
    /\ UNCHANGED <<run_type, mpc, spec, wstate, wpc, timer, elapsed, live,
                   next_pid, cache, pending, inflight, events, scan_failed, last_inject>>
    /\ UNCHANGED <<gvars, lvars, svars, xvars>>

\* Mutant: run() returns without waiting for the watcher's thread.
WaiterNoWait ==
    /\ mpc = "wait"
    /\ mpc' = "done"
    /\ UNCHANGED <<run_type, spec, wstate, wpc, timer, elapsed, live, next_pid,
                   cache, pending, inflight, events, stop, tray, scan_failed, last_inject>>
    /\ UNCHANGED <<gvars, lvars, svars, xvars>>

\* waiter.wait() returns once the watcher's thread has ended; run() returns Ok.
WaiterWait ==
    /\ mpc = "wait"
    /\ wpc \in Dead
    /\ mpc' = "done"
    /\ UNCHANGED <<run_type, spec, wstate, wpc, timer, elapsed, live, next_pid,
                   cache, pending, inflight, events, stop, tray, scan_failed, last_inject>>
    /\ UNCHANGED <<gvars, lvars, svars, xvars>>

\* ------------------------------------------------ the poll loop (section 4.2)
TimedOut ==
    /\ spec.oneshot
    /\ spec.timeout.kind = "Duration"
    /\ elapsed >= spec.timeout.secs

\* A wake-up boundary: the stop signal ends the loop, an expired timeout is
\* reported, otherwise a scan begins.
WatcherWake ==
    /\ wpc = "sleep"
    /\ timer = 0
    /\ mpc # "exited"
    /\ IF stop
       THEN /\ wpc' = "exited"
            /\ wstate' = "Stopped"
            /\ UNCHANGED <<inflight, events>>
       ELSE IF TimedOut
       THEN /\ wstate' = "TimedOut"
            /\ events' = Append(events, CallTimeout)
            /\ CallbackEnter(CallTimeout)
       ELSE /\ wpc' = "scan"
            /\ UNCHANGED <<wstate, inflight, events>>
    /\ UNCHANGED <<run_type, mpc, spec, timer, elapsed, live, next_pid, cache,
                   pending, stop, tray, scan_failed, last_inject>>
    /\ UNCHANGED <<gvars, lvars, svars, xvars>>

\* A scan whose failure ends the poll loop.
WatcherScanFatal(ok) ==
    /\ wpc = "scan"
    /\ scan_failed' = ~ok
    /\ IF ok
       THEN /\ cache' = cache \cap live
            /\ pending' = live \ cache
            /\ wpc' = "deliver"
            /\ UNCHANGED <<timer, wstate>>
       ELSE /\ wpc' = "exited"
            /\ wstate' = "Stopped"
            /\ UNCHANGED <<cache, pending, timer>>
    /\ UNCHANGED <<run_type, mpc, spec, elapsed, live, next_pid,
                   inflight, events, stop, tray, last_inject>>
    /\ UNCHANGED <<gvars, lvars, svars, xvars>>

\* One scan of the process list. A failed snapshot is "no match this cycle".
WatcherScan(ok) ==
    /\ wpc = "scan"
    /\ scan_failed' = ~ok
    /\ IF ok
       THEN /\ cache' = cache \cap live
            /\ pending' = live \ cache
            /\ wpc' = "deliver"
            /\ UNCHANGED timer
       ELSE /\ wpc' = "sleep"
            /\ timer' = spec.polling_rate
            /\ UNCHANGED <<cache, pending>>
    /\ UNCHANGED <<run_type, mpc, spec, wstate, elapsed, live, next_pid,
                   inflight, events, stop, tray, last_inject>>
    /\ UNCHANGED <<gvars, lvars, svars, xvars>>

\* Report the next match of this scan, or sleep until the next cycle.
WatcherDeliver ==
    /\ wpc = "deliver"
    /\ IF pending = {}
       THEN /\ wpc' = "sleep"
            /\ timer' = spec.polling_rate
            /\ UNCHANGED <<wstate, cache, pending, inflight, events>>
       ELSE \E p \in pending :
            /\ wstate' = "Resolved"
            /\ cache' = cache \cup {p}
            /\ pending' = pending \ {p}
            /\ events' = Append(events, Pid(p))
            /\ CallbackEnter(Pid(p))
            /\ UNCHANGED timer
    /\ UNCHANGED <<run_type, mpc, spec, elapsed, live, next_pid, stop, tray,
                   scan_failed, last_inject>>
    /\ UNCHANGED <<gvars, lvars, svars, xvars>>

\* The callback returned: a one-shot watch ends, a persistent one is Watching again.
WatcherResume ==
    /\ wpc = "returned"
    /\ IF spec.oneshot
       THEN /\ wpc' = "exited"
            /\ UNCHANGED wstate
       ELSE /\ wpc' = "deliver"
            /\ wstate' = "Watching"
    /\ UNCHANGED <<run_type, mpc, spec, timer, elapsed, live, next_pid, cache,
                   pending, inflight, events, stop, tray, scan_failed, last_inject>>
    /\ UNCHANGED <<gvars, lvars, svars, xvars>>

\* ------------------------------------------------------------- environment
\* One second passes. The loop wakes when its timer is up; scans take no time.
Tick ==
    /\ wpc \in {"sleep", "callback"} \cup Dead
    /\ wpc = "sleep" => timer > 0
    /\ mpc \notin {"start", "done", "exited"}
    /\ timer' = IF wpc = "sleep" THEN timer - 1 ELSE timer
    /\ elapsed' = Min(elapsed + 1, MaxElapsed)
    /\ UNCHANGED <<run_type, mpc, spec, wstate, wpc, live, next_pid, cache,
                   pending, inflight, events, stop, tray, scan_failed, last_inject>>
    /\ UNCHANGED <<gvars, lvars, svars, xvars>>

\* The game is started: a new process with a target image path.
TargetStart ==
    /\ next_pid <= MaxPid
    /\ mpc \notin {"done", "exited"}
    /\ live' = live \cup {next_pid}
    /\ next_pid' = next_pid + 1
    /\ UNCHANGED <<run_type, mpc, spec, wstate, wpc, timer, elapsed, cache,
                   pending, inflight, events, stop, tray, scan_failed, last_inject>>
    /\ UNCHANGED <<gvars, lvars, svars, xvars>>

\* The game is closed.
TargetExit(p) ==
    /\ p \in live
    /\ mpc \notin {"done", "exited"}
    /\ live' = live \ {p}
    /\ UNCHANGED <<run_type, mpc, spec, wstate, wpc, timer, elapsed, next_pid,
                   cache, pending, inflight, events, stop, tray, scan_failed, last_inject>>
    /\ UNCHANGED <<gvars, lvars, svars, xvars>>

\* --------------------------------------------------- strings and paths
\* A string is the sequence of its characters.
UpperCase == <<"A", "B", "C", "D", "E", "F", "G", "H", "I", "J", "K", "L", "M",
               "N", "O", "P", "Q", "R", "S", "T", "U", "V", "W", "X", "Y", "Z">>
LowerCase == <<"a", "b", "c", "d", "e", "f", "g", "h", "i", "j", "k", "l", "m",
               "n", "o", "p", "q", "r", "s", "t", "u", "v", "w", "x", "y", "z">>

IsUpper(c) == \E i \in 1..Len(UpperCase) : UpperCase[i] = c
IsLetter(c) == IsUpper(c) \/ \E i \in 1..Len(LowerCase) : LowerCase[i] = c

\* u8::to_ascii_lowercase
ToAsciiLowercase(c) ==
    IF IsUpper(c)
    THEN LowerCase[CHOOSE i \in 1..Len(UpperCase) : UpperCase[i] = c]
    ELSE c

\* String::make_ascii_lowercase
\* The string left as it was given.
MakeAsciiLowercaseNoop(s) == s
MakeAsciiLowercase(s) == [i \in 1..Len(s) |-> ToAsciiLowercase(s[i])]

None == [some |-> FALSE, val |-> <<>>]
Some(v) == [some |-> TRUE, val |-> v]

IsSeparator(c) == c \in {"/", "\\"}

\* The components of a path after its prefix: split at separators; empty
\* components and "." components are normalised away.
RECURSIVE ComponentsFrom(_, _, _)
ComponentsFrom(s, i, cur) ==
    LET keep == cur # <<>> /\ cur # <<".">> IN
    IF i > Len(s)
    THEN IF keep THEN <<cur>> ELSE <<>>
    ELSE IF IsSeparator(s[i])
         THEN (IF keep THEN <<cur>> ELSE <<>>) \o ComponentsFrom(s, i + 1, <<>>)
         ELSE ComponentsFrom(s, i + 1, Append(cur, s[i]))

\* A drive prefix "c:" is a component of its own and never a file name.
HasDrivePrefix(s) == Len(s) >= 2 /\ IsLetter(s[1]) /\ s[2] = ":"

\* Path::file_name(): the last component if it is a normal one, else None
\* (no component, a bare prefix or root, or a path ending in "..").
FileName(s) ==
    LET rest == IF HasDrivePrefix(s) THEN SubSeq(s, 3, Len(s)) ELSE s
        comps == ComponentsFrom(rest, 1, <<>>)
    IN  IF comps = <<>> \/ comps[Len(comps)] = <<".", ".">>
        THEN None
        ELSE Some(comps[Len(comps)])

\* ------------------------------------------- autostart.rs: bypass launcher
Bg3Exe == <<"b", "g", "3", ".", "e", "x", "e">>
Bg3Dx11Exe == <<"b", "g", "3", "_", "d", "x", "1", "1", ".", "e", "x", "e">>

\* get_game_binary_paths(config): the TargetPathSet, one path per variant.
Exes ==
    [bg3 |-> [dir |-> "install_root/bin", file |-> Bg3Exe],
     bg3_dx11 |-> [dir |-> "install_root/bin", file |-> Bg3Dx11Exe]]
TargetPathSet == {Exes.bg3, Exes.bg3_dx11}
NoPath == [dir |-> "", file |-> <<>>]

Fatal(title, why) == [end |-> "fatal_popup", title |-> title, why |-> why]
Returned(res) == [end |-> "return", title |-> res, why |-> ""]
Running == [end |-> "running", title |-> "", why |-> ""]

\* Mutant: a missing target argument falls back to the default renderer.
ResolveTargetDefault(av) ==
    LET rest == IF Tail(av) = <<>> THEN <<Bg3Exe>> ELSE Tail(av)
        bg3_exe == MakeAsciiLowercase(Head(rest))
        name == FileName(bg3_exe)
    IN  IF ~name.some
        THEN [ok |-> FALSE, path |-> NoPath, args |-> Tail(rest),
              why |-> "file_name() missing"]
        ELSE IF name.val = Bg3Exe
        THEN [ok |-> TRUE, path |-> Exes.bg3, args |-> Tail(rest), why |-> ""]
        ELSE IF name.val = Bg3Dx11Exe
        THEN [ok |-> TRUE, path |-> Exes.bg3_dx11, args |-> Tail(rest), why |-> ""]
        ELSE [ok |-> FALSE, path |-> NoPath, args |-> Tail(rest),
              why |-> "incorrect filename"]

\* Mutant: a file name that is no known variant is launched as it was given.
ResolveTargetTrusting(av) ==
    LET rest == Tail(av)
        bg3_exe == MakeAsciiLowercase(Head(rest))
        name == FileName(bg3_exe)
    IN  IF rest = <<>>
        THEN [ok |-> FALSE, path |-> NoPath, args |-> <<>>, why |-> "nth(1) missing"]
        ELSE IF ~name.some
        THEN [ok |-> FALSE, path |-> NoPath, args |-> Tail(rest),
              why |-> "file_name() missing"]
        ELSE IF name.val = Bg3Exe
        THEN [ok |-> TRUE, path |-> Exes.bg3, args |-> Tail(rest), why |-> ""]
        ELSE IF name.val = Bg3Dx11Exe
        THEN [ok |-> TRUE, path |-> Exes.bg3_dx11, args |-> Tail(rest), why |-> ""]
        ELSE [ok |-> TRUE, path |-> [dir |-> "command line", file |-> name.val],
              args |-> Tail(rest), why |-> ""]

\* Lines 28-61: the target is the first argument after the program's own
\* path, lowercased; its file name selects the path to launch.
ResolveTarget(av) ==
    LET rest == Tail(av)
        bg3_exe == MakeAsciiLowercase(Head(rest))
        name == FileName(bg3_exe)
    IN  IF rest = <<>>
        THEN [ok |-> FALSE, path |-> NoPath, args |-> <<>>, why |-> "nth(1) missing"]
        ELSE IF ~name.some
        THEN [ok |-> FALSE, path |-> NoPath, args |-> Tail(rest),
              why |-> "file_name() missing"]
        ELSE IF name.val = Bg3Exe
        THEN [ok |-> TRUE, path |-> Exes.bg3, args |-> Tail(rest), why |-> ""]
        ELSE IF name.val = Bg3Dx11Exe
        THEN [ok |-> TRUE, path |-> Exes.bg3_dx11, args |-> Tail(rest), why |-> ""]
        ELSE [ok |-> FALSE, path |-> NoPath, args |-> Tail(rest),
              why |-> "incorrect filename"]

\* Lines 19-61: the guard, Event::new()?, init()?, then the arguments.
AutostartBegin(event_ok, init_ok) ==
    /\ lpc = "begin"
    /\ LET r == ResolveTarget(argv) IN
       IF guard_held
       THEN /\ outcome' = Returned("another instance is running")
            /\ lpc' = "end"
            /\ UNCHANGED <<bg3_path, args>>
       ELSE IF ~event_ok \/ ~init_ok
       THEN /\ outcome' = Returned("Err")
            /\ lpc' = "end"
            /\ UNCHANGED <<bg3_path, args>>
       ELSE IF ~r.ok
       THEN /\ outcome' = Fatal("No direct launch", r.why)
            /\ lpc' = "end"
            /\ args' = r.args
            /\ UNCHANGED bg3_path
       ELSE /\ bg3_path' = r.path
            /\ args' = r.args
            /\ lpc' = "spawn"
            /\ UNCHANGED outcome
    /\ UNCHANGED <<argv, guard_held, child, steps, wvars, gvars, svars, xvars>>

\* A spawn that is tried again after it failed.
AutostartSpawnRetrying(ok, pid) ==
    /\ lpc = "spawn"
    /\ steps' = Append(steps, [op |-> "spawn", path |-> bg3_path, args |-> args,
                            pid |-> IF ok THEN pid ELSE 0, ok |-> ok])
    /\ IF ok
       THEN /\ child' = pid
            /\ lpc' = "detach"
            /\ UNCHANGED outcome
       ELSE /\ lpc' = IF Len(steps) < 2 THEN "spawn" ELSE "end"
            /\ outcome' = IF Len(steps) < 2 THEN outcome
                          ELSE Fatal("Spawn failure", "Failed to spawn game process")
            /\ UNCHANGED child
    /\ UNCHANGED <<argv, guard_held, bg3_path, args, wvars, gvars, svars, xvars>>

\* Lines 66-80: Command::new(bg3_path).args(args)...spawn()
AutostartSpawn(ok, pid) ==
    /\ lpc = "spawn"
    /\ steps' = Append(steps, [op |-> "spawn", path |-> bg3_path, args |-> args,
                            pid |-> IF ok THEN pid ELSE 0, ok |-> ok])
    /\ IF ok
       THEN /\ child' = pid
            /\ lpc' = "detach"
            /\ UNCHANGED outcome
       ELSE /\ outcome' = Fatal("Spawn failure", "Failed to spawn game process")
            /\ lpc' = "end"
            /\ UNCHANGED child
    /\ UNCHANGED <<argv, guard_held, bg3_path, args, wvars, gvars, svars, xvars>>

\* A detach whose failure is not looked at.
AutostartDetachIgnoringFailure(ok) ==
    /\ lpc = "detach"
    /\ steps' = Append(steps, [op |-> "detach", path |-> NoPath, args |-> <<>>,
                            pid |-> child, ok |-> ok])
    /\ lpc' = "loader"
    /\ UNCHANGED <<argv, guard_held, bg3_path, args, child, outcome, wvars, gvars, svars, xvars>>

\* Lines 82-89: DebugActiveProcessStop(child.id())
AutostartDetach(ok) ==
    /\ lpc = "detach"
    /\ steps' = Append(steps, [op |-> "detach", path |-> NoPath, args |-> <<>>,
                            pid |-> child, ok |-> ok])
    /\ IF ok
       THEN /\ lpc' = "loader"
            /\ UNCHANGED outcome
       ELSE /\ outcome' = Fatal("DebugActiveProcessStop failed", "")
            /\ lpc' = "end"
    /\ UNCHANGED <<argv, guard_held, bg3_path, args, child, wvars, gvars, svars, xvars>>

\* Lines 91-100: run_loader(init.config, pid, ..)
AutostartLoader(ok) ==
    /\ lpc = "loader"
    /\ steps' = Append(steps, [op |-> "inject", path |-> NoPath, args |-> <<>>,
                            pid |-> child, ok |-> ok])
    /\ outcome' = IF ok THEN Returned("Ok") ELSE Fatal("run loader failed", "")
    /\ lpc' = "end"
    /\ UNCHANGED <<argv, guard_held, bg3_path, args, child, wvars, gvars, svars, xvars>>

\* Command lines the launcher is started with.
SelfPath == <<"a", ".", "e", "x", "e">>
Forwarded == <<"-", "v">>
\* The two cases of a character.
CaseOf(c) == {c} \cup {UpperCase[i] : i \in {j \in 1..Len(LowerCase) : LowerCase[j] = c}}
\* Every upper/lower-case spelling of a lowercase name.
RECURSIVE CaseSpellings(_)
CaseSpellings(s) ==
    IF s = <<>>
    THEN {<<>>}
    ELSE {<<c>> \o t : c \in CaseOf(Head(s)), t \in CaseSpellings(Tail(s))}
\* Leading directory parts a target may be given with: none, a drive and a
\* folder, a relative folder.
DirParts ==
    { <<>>,
      <<"C", ":", "\\", "G", "a", "m", "e", "\\">>,
      <<"b", "i", "N", "/">> }
\* Spellings of the default renderer's executable.
Bg3Targets ==
    {d \o n : d \in DirParts, n \in CaseSpellings(Bg3Exe)} \cup
    { Bg3Exe,
      <<"B", "G", "3", ".", "E", "X", "E">>,
      <<"B", "g", "3", ".", "e", "X", "e">>,
      <<"C", ":", "\\", "G", "\\", "b", "g", "3", ".", "e", "x", "e">>,
      <<".", "\\", "B", "g", "3", ".", "e", "x", "e">>,
      <<"b", "g", "3", ".", "e", "x", "e", "\\">>,
      <<"g", "/", "b", "g", "3", ".", "e", "x", "e", "/", ".">> }
\* Spellings of the alternate renderer's executable.
Bg3Dx11Targets ==
    {d \o n : d \in DirParts, n \in CaseSpellings(Bg3Dx11Exe)} \cup
    { Bg3Dx11Exe,
      <<"B", "G", "3", "_", "D", "X", "1", "1", ".", "E", "X", "E">>,
      <<"b", "g", "3", "_", "D", "x", "1", "1", ".", "e", "x", "e">>,
      <<"c", ":", "/", "g", "/", "B", "G", "3", "_", "d", "x", "1", "1", ".", "E", "x", "e">> }
\* Paths whose file name is that of no variant.
OtherTargets ==
    { <<"n", "o", "t", "e", "p", "a", "d", ".", "e", "x", "e">>,
      <<"C", ":", "\\", "G", "\\", "n", "o", "t", "e", "p", "a", "d", ".", "e", "x", "e">>,
      <<"b", "g", "3">>,
      <<"b", "g", "3", ".", "e", "x", "e", ".", "b", "a", "k">>,
      <<"b", "g", "3", ".", "e", "x", "e", "\\", "n", ".", "e", "x", "e">> }
\* Paths with no file name: empty, ".", "..", a bare prefix or root, ending in "..".
NoFileNameTargets ==
    { <<>>,
      <<".">>,
      <<".", ".">>,
      <<"C", ":">>,
      <<"C", ":", "\\">>,
      <<"\\">>,
      <<"b", "g", "3", ".", "e", "x", "e", "\\", ".", ".">> }
TargetArgs == Bg3Targets \cup Bg3Dx11Targets \cup OtherTargets \cup NoFileNameTargets
Argvs ==
    {<<SelfPath>>}
        \cup {<<SelfPath, t>> : t \in TargetArgs}
        \cup {<<SelfPath, t, Forwarded>> : t \in TargetArgs}
ChildPids == {41, 42}

LInit ==
    /\ argv \in Argvs
    /\ guard_held \in BOOLEAN
    /\ lpc = "begin"
    /\ bg3_path = NoPath
    /\ args = <<>>
    /\ child = 0
    /\ steps = <<>>
    /\ outcome = Running

LNext ==
    \/ \E event_ok, init_ok \in BOOLEAN : AutostartBegin(event_ok, init_ok)
    \/ \E ok \in BOOLEAN, pid \in ChildPids : AutostartSpawn(ok, pid)
    \/ \E ok \in BOOLEAN : AutostartDetach(ok)
    \/ \E ok \in BOOLEAN : AutostartLoader(ok)

\* ------------------------------------- tool instances (section 4.5, guard)
Instances == 1..NumInstances
Kinds == {"Watcher", "Injector", "Autostart"}

\* What an instance of a tool does once it is past the guard.
WorkOf(k) == IF k = "Autostart" THEN {"spawn", "inject"} ELSE {"watch", "inject"}

\* The user starts a tool.
Launch(i, k) ==
    /\ ipc[i] = "idle"
    /\ ipc' = [ipc EXCEPT ![i] = "new"]
    /\ kind' = [kind EXCEPT ![i] = k]
    /\ UNCHANGED <<holds, did, found_held, wvars, lvars, svars, xvars>>

\* SingleInstance::new(): the named lock is acquired unless another instance holds it.
SingleInstanceNew(i) == IF holds = {} THEN "acquired" ELSE "held"

\* Mutant: the guard is bound to _ and dropped at once instead of living in
\* _singleton until the function returns.
SingletonDropped(i) ==
    /\ ipc[i] = "new"
    /\ IF SingleInstanceNew(i) = "acquired"
       THEN /\ ipc' = [ipc EXCEPT ![i] = "running"]
            /\ UNCHANGED <<holds, found_held>>
       ELSE /\ found_held' = found_held \cup {i}
            /\ ipc' = [ipc EXCEPT ![i] = "blocked"]
            /\ UNCHANGED holds
    /\ UNCHANGED <<kind, did, wvars, lvars, svars, xvars>>

\* let _singleton = SingleInstance::new(): the first statement of run() and of
\* autostart(); the guard lives in _singleton until the function returns. An
\* instance that finds the guard held goes on to exit without any work.
Singleton(i) ==
    /\ ipc[i] = "new"
    /\ IF SingleInstanceNew(i) = "acquired"
       THEN /\ holds' = holds \cup {i}
            /\ ipc' = [ipc EXCEPT ![i] = "running"]
            /\ UNCHANGED found_held
       ELSE /\ found_held' = found_held \cup {i}
            /\ ipc' = [ipc EXCEPT ![i] = "blocked"]
            /\ UNCHANGED holds
    /\ UNCHANGED <<kind, did, wvars, lvars, svars, xvars>>

\* A step of the tool's work: a watch cycle, the spawn of the game, an injection.
Work(i, w) ==
    /\ ipc[i] = "running"
    /\ w \in WorkOf(kind[i])
    /\ did' = [did EXCEPT ![i] = @ \cup {w}]
    /\ UNCHANGED <<ipc, kind, holds, found_held, wvars, lvars, svars, xvars>>

\* The process ends: run()/autostart() returned, a fatal popup, a panic or a
\* kill. The operating system releases what the process held.
ProcessExit(i) ==
    /\ ipc[i] \in {"new", "running", "blocked"}
    /\ ipc' = [ipc EXCEPT ![i] = "gone"]
    /\ holds' = holds \ {i}
    /\ UNCHANGED <<kind, did, found_held, wvars, lvars, svars, xvars>>

GInit ==
    /\ ipc = [i \in Instances |-> "idle"]
    /\ kind = [i \in Instances |-> "Watcher"]
    /\ holds = {}
    /\ did = [i \in Instances |-> {}]
    /\ found_held = {}

GNext ==
    \/ \E i \in Instances, k \in Kinds : Launch(i, k)
    \/ \E i \in Instances : Singleton(i)
    \/ \E i \in Instances, w \in {"watch", "spawn", "inject"} : Work(i, w)
    \/ \E i \in Instances : ProcessExit(i)

\* ------------------------------------------------- tmp_loader.rs write_loader
Stagers == 1..NumStagers

\* Line 6: LOADER_BIN, the compressed payload, as frames of a repeated byte.
LoaderBin == <<[byte |-> "M", run |-> 2], [byte |-> "Z", run |-> 1]>>
\* Line 7: LOADER_BIN_HASH.
LoaderBinHash == "5f2c"
\* The payload as it is before compression.
Payload == <<"M", "M", "Z">>

\* A frame copied out as it is stored.
DecodeFrameStored(f) == <<f.byte>>
\* Line 19: what the decoder produces from one frame.
DecodeFrame(f) == [i \in 1..f.run |-> f.byte]
\* Line 19: what the decoder has produced after the first n frames.
RECURSIVE Decoded(_, _)
Decoded(bin, n) ==
    IF n = 0 THEN <<>> ELSE Decoded(bin, n - 1) \o DecodeFrame(bin[n])

\* Line 19: a write of bytes at offset off of the file; a gap reads as zeros.
Zero == "0"
WriteAt(data, off, bytes) ==
    LET len == IF Len(data) > off + Len(bytes) THEN Len(data) ELSE off + Len(bytes)
    IN  [i \in 1..len |->
            IF i > off /\ i <= off + Len(bytes) THEN bytes[i - off]
            ELSE IF i <= Len(data) THEN data[i]
            ELSE Zero]

\* Lines 10 and 15: tmpdir.join(format!("loader-{LOADER_BIN_HASH}.dll")).
TmpDir == "tmp"
FilePath == [dir |-> TmpDir, name |-> <<"loader-", LoaderBinHash, ".dll">>]
NoFilePath == [dir |-> "", name |-> <<>>]

NoFile == [exists |-> FALSE, data |-> <<>>]
Complete == file.exists /\ file.data = Payload

\* What a call returned: Ok(path) or Err, and what held when it did.
Ret(res, path, complete, sequel) ==
    [res |-> res, path |-> path, complete |-> complete, sequel |-> sequel]

\* Whether a call that created the file has returned Ok.
CreatorReturned == \E c \in creators : rets[c].res = "Ok"

\* Lines 9-15: a call of write_loader begins; it fails if there is no tmpdir.
WriteLoaderBegin(s) ==
    /\ spc[s] = "idle"
    /\ Len(rets) < MaxCalls
    /\ overlap' = (overlap \/ \E t \in Stagers \ {s} : spc[t] # "idle")
    /\ IF ~tmp_exists
       THEN /\ rets' = Append(rets, Ret("Err", NoFilePath, Complete, CreatorReturned))
            /\ UNCHANGED <<spc, scall>>
       ELSE /\ rets' = Append(rets, Ret("pending", NoFilePath, FALSE, CreatorReturned))
            /\ spc' = [spc EXCEPT ![s] = "exists"]
            /\ scall' = [scall EXCEPT ![s] = Len(rets) + 1]
    /\ UNCHANGED <<tmp_exists, file, soff, creators, wvars, gvars, lvars, xvars>>

\* A check that never finds the file.
WriteLoaderExistsNever(s) ==
    /\ spc[s] = "exists"
    /\ spc' = [spc EXCEPT ![s] = "create"]
    /\ UNCHANGED <<tmp_exists, file, soff, scall, creators, overlap, rets,
                   wvars, gvars, lvars, xvars>>

\* Line 17: if !file.exists()
WriteLoaderExists(s) ==
    /\ spc[s] = "exists"
    /\ spc' = [spc EXCEPT ![s] = IF file.exists THEN "return" ELSE "create"]
    /\ UNCHANGED <<tmp_exists, file, soff, scall, creators, overlap, rets,
                   wvars, gvars, lvars, xvars>>

\* Line 18: fs::File::create(&file)?, which truncates a file that is there.
WriteLoaderCreate(s, ok) ==
    /\ spc[s] = "create"
    /\ IF ok
       THEN /\ file' = [exists |-> TRUE, data |-> <<>>]
            /\ creators' = creators \cup {scall[s]}
            /\ soff' = [soff EXCEPT ![s] = 0]
            /\ spc' = [spc EXCEPT ![s] = "decode"]
            /\ UNCHANGED <<scall, rets>>
       ELSE /\ rets' = [rets EXCEPT ![scall[s]] =
                            Ret("Err", NoFilePath, Complete, @.sequel)]
            /\ spc' = [spc EXCEPT ![s] = "idle"]
            /\ scall' = [scall EXCEPT ![s] = 0]
            /\ UNCHANGED <<file, creators, soff>>
    /\ UNCHANGED <<tmp_exists, overlap, wvars, gvars, lvars, xvars>>

\* Line 19: zstd::stream::copy_decode(LOADER_BIN, &mut out_file)?, a frame at
\* a time at the offset of this call's own out_file.
WriteLoaderDecode(s, ok) ==
    /\ spc[s] = "decode"
    /\ IF ok
       THEN /\ file' = [file EXCEPT !.data =
                            WriteAt(@, Len(Decoded(LoaderBin, soff[s])),
                                    DecodeFrame(LoaderBin[soff[s] + 1]))]
            /\ soff' = [soff EXCEPT ![s] = @ + 1]
            /\ spc' = [spc EXCEPT ![s] =
                           IF soff[s] + 1 = Len(LoaderBin) THEN "return" ELSE "decode"]
            /\ UNCHANGED <<scall, rets>>
       ELSE /\ rets' = [rets EXCEPT ![scall[s]] =
                            Ret("Err", NoFilePath, Complete, @.sequel)]
            /\ spc' = [spc EXCEPT ![s] = "idle"]
            /\ scall' = [scall EXCEPT ![s] = 0]
            /\ UNCHANGED <<file, soff>>
    /\ UNCHANGED <<tmp_exists, creators, overlap, wvars, gvars, lvars, xvars>>

\* Line 22: Ok(file)
WriteLoaderReturn(s) ==
    /\ spc[s] = "return"
    /\ rets' = [rets EXCEPT ![scall[s]] = Ret("Ok", FilePath, Complete, @.sequel)]
    /\ spc' = [spc EXCEPT ![s] = "idle"]
    /\ scall' = [scall EXCEPT ![s] = 0]
    /\ UNCHANGED <<tmp_exists, file, soff, creators, overlap, wvars, gvars, lvars, xvars>>

SIdle ==
    /\ tmp_exists = TRUE
    /\ file = NoFile
    /\ spc = [s \in Stagers |-> "idle"]
    /\ soff = [s \in Stagers |-> 0]
    /\ scall = [s \in Stagers |-> 0]
    /\ creators = {}
    /\ overlap = FALSE
    /\ rets = <<>>

SInit ==
    /\ tmp_exists \in BOOLEAN
    /\ file = NoFile
    /\ spc = [s \in Stagers |-> "idle"]
    /\ soff = [s \in Stagers |-> 0]
    /\ scall = [s \in Stagers |-> 0]
    /\ creators = {}
    /\ overlap = FALSE
    /\ rets = <<>>

SNext ==
    \/ \E s \in Stagers : WriteLoaderBegin(s)
    \/ \E s \in Stagers : WriteLoaderExists(s)
    \/ \E s \in Stagers, ok \in BOOLEAN : WriteLoaderCreate(s, ok)
    \/ \E s \in Stagers, ok \in BOOLEAN : WriteLoaderDecode(s, ok)
    \/ \E s \in Stagers : WriteLoaderReturn(s)

\* ---------------------------------------------------- loader/write.rs write_in
Null == 0
NoResult == [kind |-> "none", addr |-> Null, msg |-> ""]
Ok(addr) == [kind |-> "Ok", addr |-> addr, msg |-> ""]
Err(msg) == [kind |-> "Err", addr |-> Null, msg |-> msg]
OsCall(fn, len, ok) == [fn |-> fn, len |-> len, ok |-> ok]

\* Line 15: write_in(process, data, size) is called with an open handle.
WriteInCall(sz) ==
    /\ wi_pc = "idle"
    /\ handle_open
    /\ nwrites < MaxWrites
    /\ nwrites' = nwrites + 1
    /\ size' = sz
    /\ alloc_addr' = Null
    /\ os_calls' = <<>>
    /\ result' = NoResult
    /\ wi_pc' = "alloc"
    /\ UNCHANGED <<next_addr, regions, handle_open, wvars, gvars, lvars, svars>>

\* Lines 16-40: VirtualAllocEx(process, None, size, ..); a null address is
\* "failed to allocate". The OS refuses a region of size 0.
WriteInAlloc(ok) ==
    /\ wi_pc = "alloc"
    /\ LET got == ok /\ size > 0
       IN  /\ os_calls' = Append(os_calls, OsCall("VirtualAllocEx", size, got))
           /\ IF got
              THEN /\ alloc_addr' = next_addr
                   /\ next_addr' = next_addr + 1
                   /\ regions' = regions \cup
                                     {[base |-> next_addr, size |-> size, written |-> 0]}
                   /\ wi_pc' = "write"
                   /\ UNCHANGED result
              ELSE /\ result' = Err("failed to allocate")
                   /\ wi_pc' = "idle"
                   /\ UNCHANGED <<alloc_addr, next_addr, regions>>
    /\ UNCHANGED <<size, nwrites, handle_open, wvars, gvars, lvars, svars>>

\* A write whose result is not looked at.
WriteInWriteUnchecked(n) ==
    /\ wi_pc = "write"
    /\ os_calls' = Append(os_calls, OsCall("WriteProcessMemory", n, n = size))
    /\ regions' = {IF r.base = alloc_addr THEN [r EXCEPT !.written = n] ELSE r :
                       r \in regions}
    /\ result' = Ok(alloc_addr)
    /\ wi_pc' = "idle"
    /\ UNCHANGED <<size, alloc_addr, next_addr, nwrites, handle_open,
                   wvars, gvars, lvars, svars>>

\* A write that gives the region back when it fails.
WriteInWriteFreeing(n) ==
    /\ wi_pc = "write"
    /\ os_calls' = Append(os_calls, OsCall("WriteProcessMemory", n, n = size))
    /\ regions' = IF n = size
                  THEN {IF r.base = alloc_addr THEN [r EXCEPT !.written = n] ELSE r :
                            r \in regions}
                  ELSE {r \in regions : r.base # alloc_addr}
    /\ result' = IF n = size THEN Ok(alloc_addr) ELSE Err("failed to write to process")
    /\ wi_pc' = "idle"
    /\ UNCHANGED <<size, alloc_addr, next_addr, nwrites, handle_open,
                   wvars, gvars, lvars, svars>>

\* Lines 42-57: WriteProcessMemory(process, alloc_addr, data, size, None),
\* which copies n bytes and succeeds only if it copied all of them; an Err is
\* "failed to write to process", otherwise Ok(alloc_addr).
WriteInWrite(n) ==
    /\ wi_pc = "write"
    /\ os_calls' = Append(os_calls, OsCall("WriteProcessMemory", n, n = size))
    /\ regions' = {IF r.base = alloc_addr THEN [r EXCEPT !.written = n] ELSE r :
                       r \in regions}
    /\ result' = IF n = size THEN Ok(alloc_addr) ELSE Err("failed to write to process")
    /\ wi_pc' = "idle"
    /\ UNCHANGED <<size, alloc_addr, next_addr, nwrites, handle_open,
                   wvars, gvars, lvars, svars>>

XInit ==
    /\ wi_pc = "idle"
    /\ size = 0
    /\ alloc_addr = Null
    /\ next_addr = 1
    /\ regions = {}
    /\ os_calls = <<>>
    /\ result = NoResult
    /\ nwrites = 0
    /\ handle_open = TRUE

XNext ==
    \/ \E sz \in 0..MaxSize : WriteInCall(sz)
    \/ \E ok \in BOOLEAN : WriteInAlloc(ok)
    \/ \E n \in 0..size : WriteInWrite(n)

\* ------------------------------------------------------------ specification
WInit ==
    /\ run_type \in RunTypes
    /\ mpc = "start"
    /\ spec = NoSpec
    /\ wstate = "Idle"
    /\ wpc = "idle"
    /\ timer = 0
    /\ elapsed = 0
    /\ live = {}
    /\ next_pid = 1
    /\ cache = {}
    /\ pending = {}
    /\ inflight = {}
    /\ events = <<>>
    /\ stop = FALSE
    /\ tray = "none"
    /\ scan_failed = FALSE
    /\ last_inject = "none"

\* A launcher that has not been started.
LIdle ==
    /\ LInit
    /\ argv = <<SelfPath>>
    /\ guard_held = FALSE

Init == WInit /\ GInit /\ LIdle /\ SIdle /\ XInit

Next ==
    \/ StartWatch
    \/ \E c \in inflight : CallbackPidOk(c)
    \/ \E c \in inflight : CallbackPidErr(c)
    \/ CallbackTimeout
    \/ AppTrayStart
    \/ TrayQuit
    \/ WaiterWait
    \/ WatcherWake
    \/ \E ok \in BOOLEAN : WatcherScan(ok)
    \/ WatcherDeliver
    \/ WatcherResume
    \/ Tick
    \/ TargetStart
    \/ \E p \in live : TargetExit(p)

Spec == Init /\ [][Next]_vars

\* The tool instances of one machine and the guard they compete for.
WIdle ==
    /\ WInit
    /\ run_type = "Watcher"

InitGuard == WIdle /\ GInit /\ LIdle /\ SIdle /\ XInit

SpecGuard == InitGuard /\ [][GNext]_vars

\* One run of the bypass launcher.
InitLaunch == WIdle /\ GInit /\ LInit /\ SIdle /\ XInit

SpecLaunch == InitLaunch /\ [][LNext]_vars

\* Stagers calling write_loader, in any interleaving.
InitStage == WIdle /\ GInit /\ LIdle /\ SInit /\ XInit

SpecStage == InitStage /\ [][SNext]_vars

\* A caller writing into one target process with write_in.
InitWrite == WIdle /\ GInit /\ LIdle /\ SIdle /\ XInit

SpecWrite == InitWrite /\ [][XNext]_vars

\* The scheduler runs every thread that can take a step, time passes, and
\* inject_plugins comes back.
FairSpec ==
    /\ Spec
    /\ WF_vars(StartWatch)
    /\ WF_vars(Tick)
    /\ WF_vars(WatcherWake)
    /\ WF_vars(\E ok \in BOOLEAN : WatcherScan(ok))
    /\ WF_vars(WatcherDeliver)
    /\ WF_vars(WatcherResume)
    /\ WF_vars(\E c \in inflight : CallbackPidOk(c) \/ CallbackPidErr(c))
    /\ WF_vars(CallbackTimeout)
    /\ WF_vars(AppTrayStart)
    /\ WF_vars(WaiterWait)

\* ------------------------------------------------------------------ claims
Range(s) == {s[i] : i \in 1..Len(s)}
PidEvents == {e \in Range(events) : e.type = "Pid"}
Started == mpc # "start"

\* C1: in an Injector run (one-shot, 1 s polling, 10 s timeout) a Timeout
\* callback is the only callback of its session and comes no earlier than the
\* timeout; and once the timeout has passed without any Pid callback, exactly
\* one Timeout callback has been delivered.
C1_TimeoutExactlyOnce ==
    run_type = "Injector" =>
        /\ CallTimeout \in Range(events) =>
               /\ events = <<CallTimeout>>
               /\ elapsed >= InjectorTimeoutSecs
        /\ (Started /\ elapsed > InjectorTimeoutSecs /\ PidEvents = {}) =>
               events = <<CallTimeout>>

\* C1 witness: every scan up to the timeout failed or found nothing, the Timeout
\* callback was delivered and its popup ended the process.
C1_Witness ==
    /\ run_type = "Injector"
    /\ events = <<CallTimeout>>
    /\ mpc = "exited"
    /\ elapsed > InjectorTimeoutSecs

\* C2: in a Watcher run every callback is a Pid callback, no pid is reported
\* twice, every reported pid is one a target start produced, and whenever no
\* callback is executing the watcher is Watching again (or was stopped by the
\* stop signal).
C2_OnePidPerAppearance ==
    run_type = "Watcher" =>
        /\ \A i, j \in 1..Len(events) :
               /\ events[i].type = "Pid"
               /\ events[i].pid \in 1..(next_pid - 1)
               /\ i # j => events[i].pid # events[j].pid
        /\ (Started /\ inflight = {} /\ wpc # "returned") =>
               \/ wstate = "Watching"
               \/ stop /\ wstate = "Stopped"

\* C3: the injector tool's session is the one-shot one; it delivers at most one
\* callback, polls no more once it has delivered it, has delivered exactly one
\* when run() returns or the timeout has passed, run() returns only after the
\* watcher has stopped, and eventually the one callback has been delivered,
\* the watcher has stopped and run() is over.
C3_OneShotSingleCallback ==
    /\ [](Started =>
            /\ spec.oneshot <=> run_type = "Injector"
            /\ run_type = "Injector" =>
                   /\ Len(events) <= 1
                   /\ Len(events) = 1 => wpc \in {"callback", "returned"} \cup Dead
                   /\ mpc = "done" => Len(events) = 1 /\ wpc \in Dead
                   /\ elapsed > InjectorTimeoutSecs => Len(events) = 1)
    /\ [][(run_type = "Injector" /\ wpc \in Dead) => UNCHANGED <<events, wpc>>]_vars
    /\ (run_type = "Injector") ~>
           (Len(events) = 1 /\ wpc \in Dead /\ mpc \in {"done", "exited"})

\* C3 witness: the one-shot session found pid 1, the injection came back and
\* the waiter was released.
C3_Witness ==
    /\ spec.oneshot
    /\ events = <<Pid(1)>>
    /\ last_inject = "Ok"
    /\ wpc = "exited"
    /\ mpc = "done"

\* C4: in a Watcher run the Timeout callback is never delivered and the poll
\* loop is still running unless the stop signal has been raised.
C4_PersistentNeverStopsItself ==
    (run_type = "Watcher" /\ Started) =>
        /\ CallTimeout \notin Range(events)
        /\ wstate # "TimedOut"
        /\ ~stop => wpc \notin Dead

\* C5: in a Watcher run, after an injection that failed inside the discovery
\* callback the watcher's poll loop is still running (unless stopped).
C5_FailedInjectionKeepsWatching ==
    (run_type = "Watcher" /\ last_inject = "Err" /\ ~stop) =>
        /\ wpc \notin Dead
        /\ inflight = {} /\ wpc # "returned" => wstate = "Watching"

\* C6: at most one callback is executing at any time, and while one executes
\* the watcher's thread is inside it: no wake-up, scan or further delivery.
C6_OneCallbackInFlight ==
    /\ Cardinality(inflight) <= 1
    /\ inflight # {} => wpc = "callback"

\* C6 witness: a callback is executing while a second match of the same scan
\* is waiting to be reported.
C6_Witness ==
    /\ Cardinality(inflight) = 1
    /\ pending # {}
    /\ run_type = "Watcher"

\* C7: once the tray has raised the stop signal the poll loop leaves at its
\* next wake-up without scanning, nothing is delivered after it has left,
\* run() does not return before it has left, and eventually the loop has left
\* and run() has returned.
C7_StopEndsWatchAndRun ==
    /\ [][(stop /\ wpc = "sleep" /\ wpc' # "sleep") => wpc' = "exited"]_vars
    /\ [][(wpc \in Dead) => UNCHANGED <<events, wpc>>]_vars
    /\ [](mpc = "done" => wpc \in Dead)
    /\ (tray = "quit") ~> (stop /\ wpc \in Dead /\ mpc = "done")

\* C7 witness: stopped by the signal at a wake-up, after a discovery.
C7_Witness ==
    /\ stop
    /\ wstate = "Stopped"
    /\ wpc = "exited"
    /\ mpc = "done"
    /\ events # <<>>

\* C8: at most one instance holds the guard; only the holder is past the
\* guard; an instance that found the guard held has done no watch, spawn or
\* injection; and no instance that has exited, however it ended, still holds it.
C8_GuardExclusive ==
    /\ Cardinality(holds) <= 1
    /\ Cardinality({i \in Instances : ipc[i] = "running"}) <= 1
    /\ \A i \in Instances :
           /\ i \in found_held => did[i] = {}
           /\ did[i] # {} => i \in holds \/ ipc[i] = "gone"
           /\ ipc[i] = "running" <=> i \in holds

\* C8 witness: one holder worked and exited, a second instance found the guard
\* held and left without work, a third acquired the guard afterwards and works.
C8_Witness ==
    \E i, j, k \in Instances :
        /\ ipc[i] = "gone" /\ did[i] # {} /\ i \notin found_held
        /\ ipc[j] = "gone" /\ j \in found_held
        /\ ipc[k] = "running" /\ k \in holds /\ did[k] # {}

NoTarget == Len(argv) = 1 \/ argv[2] \in NoFileNameTargets
SpawnSteps == {k \in 1..Len(steps) : steps[k].op = "spawn"}
ReachedArguments == ~guard_held /\ outcome # Returned("Err")

\* C9 as stated: a run with no target argument, or with one that has no file
\* name, ends in "No direct launch" and attempts no step.
C9_AlwaysUsageFailure ==
    (NoTarget /\ lpc = "end") =>
        /\ outcome.title = "No direct launch"
        /\ steps = <<>>

\* C9 amended: such a run attempts no process-creation, detach or injection
\* step, and if it gets as far as its arguments (the guard was free,
\* Event::new() and init() succeeded) it ends in "No direct launch".
C9_UsageFailureOnceArgumentsRead ==
    NoTarget =>
        /\ steps = <<>>
        /\ lpc \in {"begin", "end"}
        /\ (lpc = "end" /\ ReachedArguments) =>
               outcome = Fatal("No direct launch",
                               IF Len(argv) = 1 THEN "nth(1) missing"
                                                ELSE "file_name() missing")
        /\ (lpc = "end" /\ ~ReachedArguments) => outcome.end = "return"

\* C9 witness: started with its own path only, the run ended in the popup.
C9_Witness ==
    /\ argv = <<SelfPath>>
    /\ lpc = "end"
    /\ outcome = Fatal("No direct launch", "nth(1) missing")
    /\ steps = <<>>

\* C10 as stated: a run whose target's file name is no known variant ends in
\* "No direct launch" without a spawn, and every spawn is from the TargetPathSet.
C10_AlwaysUnrecognizedTarget ==
    /\ \A k \in SpawnSteps : steps[k].path \in TargetPathSet
    /\ (Len(argv) > 1 /\ argv[2] \in OtherTargets /\ lpc = "end") =>
           /\ outcome.title = "No direct launch"
           /\ steps = <<>>

\* C10 amended: every spawn is from the path of the TargetPathSet that the
\* target's file name selects; a run whose target's file name is no known
\* variant attempts no spawn, and if it gets as far as its arguments it ends
\* in "No direct launch".
C10_SpawnOnlyTrustedPath ==
    /\ \A k \in SpawnSteps :
           /\ steps[k].path \in TargetPathSet
           /\ Len(argv) > 1
           /\ argv[2] \in Bg3Targets => steps[k].path = Exes.bg3
           /\ argv[2] \in Bg3Dx11Targets => steps[k].path = Exes.bg3_dx11
           /\ argv[2] \in Bg3Targets \cup Bg3Dx11Targets
    /\ (Len(argv) > 1 /\ argv[2] \in OtherTargets) =>
           /\ steps = <<>>
           /\ lpc \in {"begin", "end"}
           /\ (lpc = "end" /\ ReachedArguments) =>
                  outcome = Fatal("No direct launch", "incorrect filename")

\* C10 witness: notepad.exe was refused.
C10_Witness ==
    /\ Len(argv) > 1
    /\ argv[2] = <<"n", "o", "t", "e", "p", "a", "d", ".", "e", "x", "e">>
    /\ lpc = "end"
    /\ outcome = Fatal("No direct launch", "incorrect filename")
    /\ steps = <<>>

\* C11: a run whose target is any upper/lower-case spelling of a variant's
\* file name, with or without a leading directory part, and that gets as far
\* as its arguments resolves to the path of the TargetPathSet that the exact
\* lowercase file name resolves to.
C11_CaseInsensitiveResolution ==
    \A canon \in {Bg3Exe, Bg3Dx11Exe} :
        LET spellings == IF canon = Bg3Exe THEN Bg3Targets ELSE Bg3Dx11Targets
            exact == ResolveTarget(<<SelfPath, canon>>)
        IN  (Len(argv) > 1 /\ argv[2] \in spellings /\ lpc # "begin" /\ ReachedArguments) =>
                /\ exact.ok
                /\ exact.path \in TargetPathSet
                /\ bg3_path = exact.path
                /\ outcome.title # "No direct launch"
                /\ \A k \in SpawnSteps : steps[k].path = exact.path

\* C11 witness: "C:\Game\bG3_Dx11.ExE" was resolved to the alternate renderer's path
\* and spawned from it.
C11_Witness ==
    /\ Len(argv) > 1
    /\ argv[2] = <<"C", ":", "\\", "G", "a", "m", "e", "\\",
                    "b", "G", "3", "_", "D", "x", "1", "1", ".", "E", "x", "E">>
    /\ bg3_path = Exes.bg3_dx11
    /\ SpawnSteps # {}

StepOps == [k \in 1..Len(steps) |-> steps[k].op]
FailedSteps == {k \in 1..Len(steps) : ~steps[k].ok}

\* C12: the steps of a launcher run are spawn, then the detach on the pid the
\* spawn returned, then the injection driver on that same pid; the injection
\* driver runs only after a detach that succeeded, and a failed spawn or
\* detach is the last step of a run that ends in a fatal notification.
C12_SpawnDetachInjectOrder ==
    /\ StepOps \in {<<>>, <<"spawn">>, <<"spawn", "detach">>,
                    <<"spawn", "detach", "inject">>}
    /\ \A k \in 1..Len(steps) :
           /\ steps[k].op = "detach" =>
                  /\ steps[k - 1].ok
                  /\ steps[k - 1].pid \in ChildPids
                  /\ steps[k].pid = steps[k - 1].pid
           /\ steps[k].op = "inject" =>
                  /\ steps[k - 1].ok
                  /\ steps[k].pid = steps[k - 1].pid
    /\ \A k \in FailedSteps :
           steps[k].op \in {"spawn", "detach"} =>
               /\ k = Len(steps)
               /\ lpc = "end"
               /\ outcome.end = "fatal_popup"
               /\ outcome.title = IF steps[k].op = "spawn"
                                  THEN "Spawn failure"
                                  ELSE "DebugActiveProcessStop failed"

\* C12 witness: the detach of child 42 failed and the run ended in the
\* notification with no injection.
C12_Witness ==
    /\ StepOps = <<"spawn", "detach">>
    /\ steps[2].pid = 42
    /\ ~steps[2].ok
    /\ outcome = Fatal("DebugActiveProcessStop failed", "")

\* C13: a launcher run attempts process creation at most once, a run that got
\* past a successful spawn has created exactly one child, and the only things
\* the launcher does to a process are spawn, detach and inject: the child
\* is neither terminated nor waited on, also after a failed detach or a
\* failed injection.
C13_AtMostOneChild ==
    /\ Cardinality(SpawnSteps) <= 1
    /\ Range(StepOps) \subseteq {"spawn", "detach", "inject"}
    /\ lpc \in {"detach", "loader"} => Cardinality(SpawnSteps) = 1
    /\ child # 0 <=> \E k \in SpawnSteps : steps[k].ok /\ steps[k].pid = child
    /\ (SpawnSteps # {} /\ child = 0) =>
           /\ lpc = "end"
           /\ outcome = Fatal("Spawn failure", "Failed to spawn game process")

\* C13 witness: the injection into the one child failed and the run ended
\* with the child spawned once and left alone.
C13_Witness ==
    /\ StepOps = <<"spawn", "detach", "inject">>
    /\ ~steps[3].ok
    /\ child = 41
    /\ outcome = Fatal("run loader failed", "")

Calls == 1..Len(rets)

\* C14: when calls of write_loader do not overlap, a call that begins after a
\* call that created the file has returned its path returns the identical path
\* loader-<hash>.dll in the temp directory, does not create or write the file,
\* and finds in it the decompressed embedded payload.
C14_StagingIdempotent ==
    \A c \in Calls :
        (rets[c].res = "Ok" /\ rets[c].sequel /\ ~overlap) =>
            /\ c \notin creators
            /\ Cardinality(creators) = 1
            /\ \A d \in creators :
                   /\ d < c
                   /\ rets[d].path = rets[c].path
                   /\ rets[d].complete
            /\ rets[c].path = [dir |-> TmpDir, name |-> <<"loader-", LoaderBinHash, ".dll">>]
            /\ rets[c].complete
            /\ file = [exists |-> TRUE, data |-> Payload]

\* C14 witness: the first call created the file and returned, the second
\* found it and returned.
C14_Witness ==
    /\ Len(rets) >= 2
    /\ ~overlap
    /\ creators = {1}
    /\ rets[1].res = "Ok"
    /\ rets[2].res = "Ok"
    /\ rets[2].sequel

\* C15 as stated: at most one call creates and writes the file, whatever the
\* interleaving.
C15_AtMostOneCreator == Cardinality(creators) <= 1

\* C15 amended: among calls that do not overlap at most one creates and writes
\* the file, no call that begins after a creating call has returned creates
\* it, and racing stagers create it at most once each.
C15_OneCreatorUnlessRacing ==
    /\ ~overlap => Cardinality(creators) <= 1
    /\ \A c \in creators : ~rets[c].sequel
    /\ Cardinality(creators) <= NumStagers

\* C15 witness: two racing stagers both created the file, and a later call
\* found it.
C15_Witness ==
    /\ Cardinality(creators) = 2
    /\ \E c \in Calls : rets[c].res = "Ok" /\ rets[c].sequel /\ c \notin creators

\* C17: whenever write_loader returns a path, the file at that path holds the
\* complete decompressed payload at the moment of the return.
C17_ReturnedPathHoldsPayload ==
    \A c \in Calls : rets[c].res = "Ok" => rets[c].complete

WriteInReturned == wi_pc = "idle" /\ nwrites > 0
AllocCalls == {k \in 1..Len(os_calls) : os_calls[k].fn = "VirtualAllocEx"}
WriteCalls == {k \in 1..Len(os_calls) : os_calls[k].fn = "WriteProcessMemory"}

\* C16: write_in returns the base address of the region it allocated if and
\* only if the allocation succeeded and the write copied the whole requested
\* length; after a failed allocation it returns an error and has attempted no
\* write, and after a failed write it returns an error and no address.
C16_AddressIffAllocatedAndWritten ==
    WriteInReturned =>
        /\ result.kind \in {"Ok", "Err"}
        /\ result.kind = "Ok" <=>
               /\ Len(os_calls) = 2
               /\ os_calls[1] = OsCall("VirtualAllocEx", size, TRUE)
               /\ os_calls[2] = OsCall("WriteProcessMemory", size, TRUE)
        /\ result.kind = "Ok" =>
               /\ result.addr # Null
               /\ result.addr = next_addr - 1
               /\ \E r \in regions :
                      r.base = result.addr /\ r.size = size /\ r.written = size
        /\ (\E k \in AllocCalls : ~os_calls[k].ok) =>
               /\ WriteCalls = {}
               /\ result = Err("failed to allocate")
        /\ (\E k \in WriteCalls : ~os_calls[k].ok) =>
               /\ result = Err("failed to write to process")
               /\ result.addr = Null

\* C16 witness: a write of 2 bytes copied 1 and write_in returned the error.
C16_Witness ==
    /\ WriteInReturned
    /\ size = 2
    /\ os_calls = <<OsCall("VirtualAllocEx", 2, TRUE), OsCall("WriteProcessMemory", 1, FALSE)>>
    /\ result = Err("failed to write to process")

\* C18: on every path write_in leaves the caller's handle open, no region of
\* the target is ever freed (also not the one whose write failed), and a call
\* allocates at most one region.
C18_HandleAndRegionsKept ==
    /\ handle_open
    /\ Cardinality(regions) = next_addr - 1
    /\ \A b \in 1..(next_addr - 1) : \E r \in regions : r.base = b
    /\ Cardinality(AllocCalls) <= 1
    /\ Cardinality(regions) <= nwrites
    /\ (WriteInReturned /\ result = Err("failed to write to process")) =>
           \E r \in regions : r.base = alloc_addr /\ r.size = size

\* C18 witness: after a failed write and a later successful one, both regions
\* are allocated.
C18_Witness ==
    /\ WriteInReturned
    /\ result.kind = "Ok"
    /\ Cardinality(regions) = 2
    /\ \E r \in regions : r.written < r.size

\* C20: a call of write_in with size 0 is either rejected before any
\* allocation call is issued, or accepted: it performs a zero-length write and
\* returns success.
C20_ZeroSizeOnePolicy ==
    (WriteInReturned /\ size = 0) =>
        \/ result.kind = "Err" /\ os_calls = <<>>
        \/ /\ result.kind = "Ok"
           /\ \E k \in WriteCalls : os_calls[k].len = 0 /\ os_calls[k].ok

\* C19: a poll cycle that fails to snapshot the process list delivers no
\* callback, leaves the watcher Watching with what it has reported so far, and
\* puts the loop to sleep for one polling interval as a cycle without a match
\* does; unless the watch is stopped, times out or the run ends, the next
\* cycle scans again.
C19_ScanFailureAbsorbed ==
    /\ [][(wpc = "scan" /\ wpc' # "scan" /\ scan_failed') =>
              /\ events' = events
              /\ inflight' = inflight
              /\ wstate = "Watching"
              /\ wstate' = wstate
              /\ cache' = cache
              /\ pending' = pending
              /\ wpc' = "sleep"
              /\ timer' = spec.polling_rate]_vars
    /\ (scan_failed /\ wpc = "sleep") ~>
           \/ wpc = "scan"
           \/ wstate \in {"Stopped", "TimedOut"}
           \/ mpc \in {"done", "exited"}

\* C19 witness: after a failed cycle the loop has slept and begun the next
\* scan, with a target running that it has not reported yet.
C19_Witness ==
    /\ scan_failed
    /\ wpc = "scan"
    /\ wstate = "Watching"
    /\ live \ cache # {}
    /\ events = <<>>

====
